---- MODULE Spec2Model ----
(***************************************************************************)
(* A model of app.py: the brokerage-rate extraction (extract_scheme_data), *)
(* the spreadsheet reconciliation (fill_excel / get_brokerage) and the     *)
(* upload handler (upload_files).                                          *)
(*                                                                         *)
(* Text is a sequence of one-character strings.  A rate is an integer      *)
(* number of hundredths (the rate pattern keeps at most two fractional     *)
(* digits), so 1.35 is 135 and the ceiling 10.0 is 1000.                   *)
(***************************************************************************)
EXTENDS Integers, Sequences, FiniteSets, TLC

VARIABLES
    \* extract_scheme_data
    doc,            \* the pages pdfplumber yields for the document
    epc,            \* position in extract_scheme_data
    pwIdx,          \* index of the password being tried (1-based)
    pageIdx,        \* index of the page being processed (1-based)
    scheme_map,     \* the registry under construction (insertion-ordered dict)
    tables_found,   \* the local flag of the same name
    result,         \* what extract_scheme_data returned
    rawRates,       \* history: each key's rates before the LONGTERM default
    writtenIn,      \* history: the attempt that last wrote each key
    beforeOverride, \* history: the registry just before SCHEME_VALIDATIONS
    lastPage,       \* history: what happened on the page just processed
    assignLog,      \* history: the rate assignments of the last text fallback
    \* fill_excel
    fpc,            \* position in fill_excel
    registry,       \* the scheme_map passed to fill_excel
    sheet,          \* the spreadsheet as read (columns and rows)
    df,             \* the data frame being filled
    T15,            \* the T15 column
    B15,            \* the B15 column
    rowLog,         \* history: how get_brokerage resolved each row
    \* upload_files
    req,            \* the two requests' inputs
    upc,            \* each request's position in upload_files
    bound,          \* each request's bound path locals
    fs,             \* the files under UPLOAD_FOLDER and OUTPUT_FOLDER
    held,           \* each request's scheme_map (as the upload it was read from)
    resp            \* each request's response

evars == <<doc, epc, pwIdx, pageIdx, scheme_map, tables_found, result,
           rawRates, writtenIn, beforeOverride, lastPage, assignLog>>
fvars == <<fpc, registry, sheet, df, T15, B15, rowLog>>
uvars == <<req, upc, bound, fs, held, resp>>
vars == <<evars, fvars, uvars>>

(***************************************************************************)
(* Bounds of the model.                                                    *)
(***************************************************************************)
MaxPages == 2       \* pages of a document
MaxRows == 2        \* rows of a spreadsheet

(***************************************************************************)
(* Python values.                                                          *)
(***************************************************************************)
None == -1          \* Optional[float]: no rate

Truthy(v) == v # None /\ v # 0      \* bool(v) of an Optional[float]

Min(S) == CHOOSE x \in S : \A y \in S : x <= y

(***************************************************************************)
(* Characters and str methods.                                             *)
(***************************************************************************)
Lowers == <<"a", "b", "c", "d", "e", "f", "g", "h", "i", "j", "k", "l", "m", "n", "o", "p", "q", "r", "s", "t", "u", "v", "w", "x", "y", "z">>
Uppers == <<"A", "B", "C", "D", "E", "F", "G", "H", "I", "J", "K", "L", "M", "N", "O", "P", "Q", "R", "S", "T", "U", "V", "W", "X", "Y", "Z">>
Digits == {"0", "1", "2", "3", "4", "5", "6", "7", "8", "9"}

IsWordChar(c) ==    \* \w
    \/ \E i \in 1..Len(Lowers) : c = Lowers[i] \/ c = Uppers[i]
    \/ c \in Digits
    \/ c = "_"

IsSpace(c) == c \in {" ", "\t", "\n", "\r"}     \* \s

LowerChar(c) ==
    IF \E i \in 1..Len(Uppers) : Uppers[i] = c
    THEN Lowers[CHOOSE i \in 1..Len(Uppers) : Uppers[i] = c]
    ELSE c

lower(s) == [i \in 1..Len(s) |-> LowerChar(s[i])]

RECURSIVE lstrip(_)
lstrip(s) == IF s # <<>> /\ IsSpace(Head(s)) THEN lstrip(Tail(s)) ELSE s

RECURSIVE rstrip(_)
rstrip(s) ==
    IF s # <<>> /\ IsSpace(s[Len(s)]) THEN rstrip(SubSeq(s, 1, Len(s) - 1)) ELSE s

strip(s) == rstrip(lstrip(s))

\* sub in s
Contains(s, sub) ==
    \E i \in 1..(Len(s) - Len(sub) + 1) : SubSeq(s, i, i + Len(sub) - 1) = sub

(***************************************************************************)
(* normalize (app.py 218-222).                                             *)
(***************************************************************************)
\* re.sub(r"[^\w\s.]", "", text)
RemoveSpecial(s) == SelectSeq(s, LAMBDA c : IsWordChar(c) \/ IsSpace(c) \/ c = ".")

\* the alternatives of the plan-qualifier pattern
PlanSuffixes == {
    <<"r", "e", "g", "u", "l", "a", "r", " ", "p", "l", "a", "n">>,
    <<"r", "e", "g">>,
    <<"i", "n", "s", "t", "i", "t", "u", "t", "i", "o", "n", "a", "l", " ", "p", "l", "a", "n">>,
    <<"e", "x", " ", "i", "n", "s", "t", "i", "t", "u", "t", "i", "o", "n", "a", "l", " ", "p", "l", "a", "n">>,
    <<"r", "e", "t", "a", "i", "l", " ", "p", "l", "a", "n">>,
    <<"l", "o", "n", "g", " ", "t", "e", "r", "m", " ", "p", "l", "a", "n">> }

\* re.sub(r"\s*(regular plan|reg|...)\s*$", "", t).  A match runs to the end of
\* t: white space, one alternative, white space.  The search takes the leftmost
\* position a match starts at, and that one match is all that is replaced.
StripPlanSuffix(t) ==
    LET e == Len(rstrip(t))
        Fits(alt) == Len(alt) <= e /\ SubSeq(t, e - Len(alt) + 1, e) = alt
        Start(alt) == Len(rstrip(SubSeq(t, 1, e - Len(alt)))) + 1
        starts == {Start(alt) : alt \in {a \in PlanSuffixes : Fits(a)}}
    IN  IF starts = {} THEN t ELSE SubSeq(t, 1, Min(starts) - 1)

normalize(text) == strip(StripPlanSuffix(lower(strip(RemoveSpecial(text)))))

(***************************************************************************)
(* Configuration (app.py 17-47).                                           *)
(***************************************************************************)
PDF_PASSWORDS == <<"ARN100481", "AAHCP7661C", "">>
MAX_REASONABLE_RATE == 1000
BROKERAGE_TYPES == <<"FIRST YEAR TRAIL", "SECOND YEAR TRAIL", "THIRD YEAR TRAIL",
                     "FOURTH YEAR TRAIL", "LONGTERM YEAR TRAIL">>
Tiers == {BROKERAGE_TYPES[i] : i \in 1..Len(BROKERAGE_TYPES)}

\* each entry: the fund, then its (tier, mandated rate) pairs
SCHEME_VALIDATIONS == <<
    [k |-> <<"h", "s", "b", "c", " ", "f", "i", "n", "a", "n", "c", "i", "a", "l", " ", "s", "e", "r", "v", "i", "c", "e", "s", " ", "f", "u", "n", "d">>,
     v |-> << <<"FOURTH YEAR TRAIL", 135>> >>],
    [k |-> <<"h", "s", "b", "c", " ", "i", "n", "d", "i", "a", " ", "e", "x", "p", "o", "r", "t", " ", "o", "p", "p", "o", "r", "t", "u", "n", "i", "t", "i", "e", "s", " ", "f", "u", "n", "d">>,
     v |-> << <<"THIRD YEAR TRAIL", 145>>, <<"FOURTH YEAR TRAIL", 135>> >>],
    [k |-> <<"h", "s", "b", "c", " ", "m", "i", "d", "c", "a", "p", " ", "f", "u", "n", "d">>,
     v |-> << <<"THIRD YEAR TRAIL", 115>>, <<"FOURTH YEAR TRAIL", 105>>,
              <<"LONGTERM YEAR TRAIL", 105>> >>] >>

\* The tier lists of BROKERAGE_COLUMN_PATTERNS, in the list's order.  A header
\* cell or a text line carries the index of the first pattern that matches it
\* (0: none), which is what the search loops with their break compute.
BROKERAGE_COLUMN_PATTERNS == <<
    <<"FIRST YEAR TRAIL">>,
    <<"SECOND YEAR TRAIL">>,
    <<"THIRD YEAR TRAIL">>,
    <<"FOURTH YEAR TRAIL">>,
    <<"LONGTERM YEAR TRAIL">>,
    <<"FIRST YEAR TRAIL", "SECOND YEAR TRAIL", "THIRD YEAR TRAIL">>,
    <<"FIRST YEAR TRAIL", "SECOND YEAR TRAIL", "THIRD YEAR TRAIL">> >>

(***************************************************************************)
(* A dict is a sequence of [k, v] entries with distinct keys, in insertion *)
(* order.                                                                  *)
(***************************************************************************)
Keys(d) == {d[i].k : i \in 1..Len(d)}
Has(d, key) == key \in Keys(d)
Get(d, key) == d[CHOOSE i \in 1..Len(d) : d[i].k = key].v
Put(d, key, val) ==
    IF Has(d, key)
    THEN [i \in 1..Len(d) |-> IF d[i].k = key THEN [k |-> key, v |-> val] ELSE d[i]]
    ELSE Append(d, [k |-> key, v |-> val])

NoRates == [bt \in Tiers |-> None]      \* {bt: None for bt in BROKERAGE_TYPES}

(***************************************************************************)
(* The document as pdfplumber presents it.                                 *)
(*                                                                         *)
(* A table is [header, rows].  A header cell is [scheme, pat]: whether its *)
(* normalized text contains "scheme", "fund" or "name", and the index of   *)
(* the first BROKERAGE_COLUMN_PATTERNS entry that matches it.  A data cell *)
(* is [text, rates]: its characters, and rate_pattern.findall of it, each  *)
(* match converted by float().                                             *)
(*                                                                         *)
(* A text line is [text, rates, pat, footer, tierword]: the normalized     *)
(* line with its rate substrings deleted, rate_pattern.findall of the      *)
(* line, the first pattern matching the line, whether the line contains a  *)
(* footer marker, and whether the name contains a lower-cased tier name.   *)
(***************************************************************************)
HScheme == [scheme |-> TRUE, pat |-> 0]
HPat(p) == [scheme |-> FALSE, pat |-> p]
Cell(t, r) == [text |-> t, rates |-> r]
Line(t, r, p) == [text |-> t, rates |-> r, pat |-> p, footer |-> FALSE, tierword |-> FALSE]

\* scenario A of the specification
TableA == [header |-> <<HScheme, HPat(1), HPat(2)>>,
           rows |-> << <<Cell(<<"A", "B", "C", " ", "F", "u", "n", "d">>, <<>>), Cell(<<"0", ".", "5", "0", "%">>, <<50>>),
                         Cell(<<"0", ".", "3", "0", "%">>, <<30>>)>> >>]

TableB == [header |-> <<HScheme, HPat(3), HPat(4)>>,
           rows |-> <<
             <<Cell(<<"H", "S", "B", "C", " ", "M", "i", "d", "c", "a", "p", " ", "F", "u", "n", "d", " ", "-", " ", "R", "e", "g", "u", "l", "a", "r", " ", "P", "l", "a", "n">>, <<>>), Cell(<<"1", ".", "2", "0">>, <<120>>),
               Cell(<<"0", ".", "0", "0">>, <<0>>)>>,
             <<Cell(<<"A", "B", "C", " ", "F", "u", "n", "d">>, <<>>), Cell(<<"0", ".", "4", "0">>, <<40>>), Cell(<<"0", ".", "0", "0", "%">>, <<0>>)>>,
             <<Cell(<<"H", "S", "B", "C", " ", "F", "i", "n", "a", "n", "c", "i", "a", "l", " ", "S", "e", "r", "v", "i", "c", "e", "s", " ", "F", "u", "n", "d">>, <<>>), Cell(<<"-">>, <<>>),
               Cell(<<"0", ".", "5", "0", "%">>, <<50>>)>>,
             <<Cell(<<"T", "o", "t", "a", "l">>, <<>>), Cell(<<"9", ".", "9", "9">>, <<999>>), Cell(<<"9", ".", "9", "9">>, <<999>>)>> >>]

\* no scheme column
TableC == [header |-> <<HPat(0), HPat(1)>>,
           rows |-> << <<Cell(<<"A", "B", "C", " ", "F", "u", "n", "d">>, <<>>), Cell(<<"0", ".", "5", "0">>, <<50>>)>> >>]

\* a header row alone
TableD == [header |-> <<HScheme, HPat(1)>>, rows |-> <<>>]

\* a range column, a long-term column, an out-of-range rate, a short row
TableE == [header |-> <<HPat(6), HScheme, HPat(5)>>,
           rows |-> <<
             <<Cell(<<"0", ".", "7", "0">>, <<70>>), Cell(<<"X", "Y", " ", "R", "e", "t", "a", "i", "l", " ", "P", "l", "a", "n", " ", "R", "e", "g">>, <<>>),
               Cell(<<"1", "2", ".", "3", "4">>, <<1234>>)>>,
             <<Cell(<<"0", ".", "1", "0">>, <<10>>)>>,
             <<Cell(<<"0", ".", "0", "0">>, <<0>>), Cell(<<"H", "S", "B", "C", " ", "F", "i", "n", "a", "n", "c", "i", "a", "l", " ", "S", "e", "r", "v", "i", "c", "e", "s", " ", "F", "u", "n", "d">>, <<>>),
               Cell(<<"0", ".", "4", "5">>, <<45>>)>> >>]

TextA == <<
    Line(<<"d", "e", "f", " ", "f", "u", "n", "d", " ">>, <<50>>, 0),
    Line(<<"4", "t", "h", " ", "y", "e", "a", "r", " ">>, <<30>>, 4),
    Line(<<"1", "s", "t", " ", "y", "e", "a", "r", " ", " ", "2", "n", "d", " ", "y", "e", "a", "r", " ">>, <<20, 15>>, 1),
    [text |-> <<"t", "o", "t", "a", "l", " ">>, rates |-> <<999>>, pat |-> 0, footer |-> TRUE,
     tierword |-> FALSE],
    [text |-> <<"f", "o", "u", "r", "t", "h", " ", "y", "e", "a", "r", " ", "t", "r", "a", "i", "l", " ">>, rates |-> <<25>>, pat |-> 4, footer |-> FALSE,
     tierword |-> TRUE],
    Line(<<>>, <<>>, 0) >>

TextB == <<
    Line(<<"h", "s", "b", "c", " ", "f", "i", "n", "a", "n", "c", "i", "a", "l", " ", "s", "e", "r", "v", "i", "c", "e", "s", " ", "f", "u", "n", "d">>, <<>>, 0),
    Line(<<"x", "y", " ", "r", "e", "t", "a", "i", "l", " ", "p", "l", "a", "n", " ", "r", "e", "g", " ">>, <<70, 1234, 0>>, 0),
    Line(<<"l", "o", "n", "g", " ", "t", "e", "r", "m", " ">>, <<60>>, 5) >>

Page(tb, tx) == [tables |-> tb, text |-> tx]

PageSamples == {
    Page(<<TableA>>, <<Line(<<"a", "b", "c", " ", "f", "u", "n", "d", " ", " ">>, <<50, 30>>, 0)>>),
    Page(<<TableD, TableB>>, <<>>),
    Page(<<TableC>>, TextB),
    Page(<<TableE>>, <<>>),
    Page(<<>>, TextA),
    Page(<<>>, <<>>) }

Docs == UNION {[1..n -> PageSamples] : n \in 1..MaxPages}

(***************************************************************************)
(* extract_scheme_data (app.py 99-216).                                    *)
(*                                                                         *)
(* The page loop threads st = [map, raw, touched, log]: scheme_map, and as *)
(* history the rates of each key before the LONGTERM default, the keys     *)
(* written on this page and the text fallback's assignments.               *)
(***************************************************************************)
\* 155-156 and 198-199
LongtermDefault(rates) ==
    IF Truthy(rates["FOURTH YEAR TRAIL"]) /\ ~Truthy(rates["LONGTERM YEAR TRAIL"])
    THEN [rates EXCEPT !["LONGTERM YEAR TRAIL"] = rates["FOURTH YEAR TRAIL"]]
    ELSE rates

\* 158 and 200: any(r for r in rates.values() if r is not None)
AnyRate(rates) == \E bt \in Tiers : rates[bt] # None /\ Truthy(rates[bt])

\* 159 and 201, with the history
Store(st, name, raw) ==
    LET rates == LongtermDefault(raw)
    IN  IF AnyRate(rates)
        THEN [st EXCEPT !.map = Put(st.map, name, rates),
                        !.raw = Put(st.raw, name, raw),
                        !.touched = st.touched \cup {name}]
        ELSE st

\* 118-128: col_mapping, as the 1-based column of "SCHEME" and of each tier
\* (0: not mapped)
RECURSIVE ColMapping(_, _, _)
ColMapping(header, i, m) ==
    IF i > Len(header) THEN m
    ELSE LET col == header[i]
         IN  IF col.scheme
             THEN ColMapping(header, i + 1, [m EXCEPT !["SCHEME"] = i])
             ELSE IF col.pat # 0
             THEN ColMapping(header, i + 1,
                    [x \in DOMAIN m |->
                        IF \E n \in 1..Len(BROKERAGE_COLUMN_PATTERNS[col.pat]) :
                               BROKERAGE_COLUMN_PATTERNS[col.pat][n] = x
                        THEN i ELSE m[x]])
             ELSE ColMapping(header, i + 1, m)

NoMapping == [x \in Tiers \cup {"SCHEME"} |-> 0]

\* 140-153: the first match of each mapped cell, unless above the ceiling
RowRates(row, m) ==
    [bt \in Tiers |->
        IF m[bt] = 0 \/ m[bt] > Len(row) THEN None
        ELSE LET matches == row[m[bt]].rates
             IN  IF matches = <<>> THEN None
                 ELSE IF matches[1] > MAX_REASONABLE_RATE THEN None
                 ELSE matches[1]]

FooterMarkers == { <<"s", "c", "h", "e", "m", "e", " ", "n", "a", "m", "e">>, <<"t", "o", "t", "a", "l">>, <<"a", "g", "g", "r", "e", "g", "a", "t", "e">> }

\* 133-159
RECURSIVE TableRows(_, _, _, _)
TableRows(rows, r, m, st) ==
    IF r > Len(rows) THEN st
    ELSE LET row == rows[r]
         IN  IF row = <<>> \/ Len(row) < m["SCHEME"]
             THEN TableRows(rows, r + 1, m, st)
             ELSE LET scheme_name == normalize(row[m["SCHEME"]].text)
                  IN  IF scheme_name = <<>>
                         \/ \E x \in FooterMarkers : Contains(scheme_name, x)
                      THEN TableRows(rows, r + 1, m, st)
                      ELSE TableRows(rows, r + 1, m,
                                     Store(st, scheme_name, RowRates(row, m)))

\* 113: a table that is not skipped by "not table or len(table) < 2"
Counted(table) == 1 + Len(table.rows) >= 2

\* 112-159
RECURSIVE Tables(_, _, _)
Tables(tables, t, st) ==
    IF t > Len(tables) THEN st
    ELSE IF ~Counted(tables[t]) THEN Tables(tables, t + 1, st)
    ELSE LET m == ColMapping(tables[t].header, 1, NoMapping)
             st1 == [st EXCEPT !.found = TRUE]
         IN  IF m["SCHEME"] = 0
             THEN Tables(tables, t + 1, st1)
             ELSE Tables(tables, t + 1, TableRows(tables[t].rows, 1, m, st1))

\* 184-197: the rates of one sub-line; acc = [rates, rate_idx, log, first]
RECURSIVE SubLineRates(_, _, _, _)
SubLineRates(sub_matches, n, matched, acc) ==
    IF n > Len(sub_matches) THEN acc
    ELSE LET rate_value == sub_matches[n]
             entry(tiers, after, positional) ==
                 [matched |-> matched, first |-> acc.first, cursor |-> acc.rate_idx,
                  tiers |-> tiers, after |-> after, positional |-> positional]
         IN  IF rate_value > MAX_REASONABLE_RATE
             THEN SubLineRates(sub_matches, n + 1, matched, acc)
             ELSE IF matched # <<>> /\ acc.rate_idx < Len(matched)
             THEN LET S == {matched[x] : x \in 1..Len(matched)}
                  IN  SubLineRates(sub_matches, n + 1, matched,
                        [rates |-> [bt \in Tiers |->
                                      IF bt \in S THEN rate_value ELSE acc.rates[bt]],
                         rate_idx |-> acc.rate_idx + Len(matched),
                         log |-> acc.log \cup {entry(S, acc.rate_idx + Len(matched), FALSE)},
                         first |-> FALSE])
             ELSE IF acc.rate_idx < Len(BROKERAGE_TYPES)
             THEN SubLineRates(sub_matches, n + 1, matched,
                        [rates |-> [acc.rates EXCEPT
                                      ![BROKERAGE_TYPES[acc.rate_idx + 1]] = rate_value],
                         rate_idx |-> acc.rate_idx + 1,
                         log |-> acc.log \cup
                                   {entry({BROKERAGE_TYPES[acc.rate_idx + 1]},
                                          acc.rate_idx + 1, TRUE)},
                         first |-> FALSE])
             ELSE SubLineRates(sub_matches, n + 1, matched,
                        [acc EXCEPT !.log = acc.log \cup {entry({}, acc.rate_idx, FALSE)},
                                    !.first = FALSE])

\* 176-197: the scan window from line j to line hi
RECURSIVE Window(_, _, _, _)
Window(lines, j, hi, acc) ==
    IF j > hi THEN acc
    ELSE LET matched_brokerage_types ==
                 IF lines[j].pat = 0 THEN <<>>
                 ELSE BROKERAGE_COLUMN_PATTERNS[lines[j].pat]
         IN  Window(lines, j + 1, hi,
                    SubLineRates(lines[j].rates, 1, matched_brokerage_types,
                                 [acc EXCEPT !.first = TRUE]))

MinOf(a, b) == IF a < b THEN a ELSE b

\* 166-201
RECURSIVE TextLines(_, _, _)
TextLines(lines, i, st) ==
    IF i > Len(lines) THEN st
    ELSE LET line == lines[i]
             scheme_name == normalize(strip(line.text))
         IN  IF (line.text = <<>> /\ line.rates = <<>>) \/ line.footer
             THEN TextLines(lines, i + 1, st)
             ELSE IF line.rates # <<>> /\ scheme_name # <<>> /\ ~line.tierword
             THEN LET acc == Window(lines, i,
                                    MinOf(i + Len(BROKERAGE_TYPES), Len(lines) + 1) - 1,
                                    [rates |-> NoRates, rate_idx |-> 0, log |-> {},
                                     first |-> TRUE])
                  IN  TextLines(lines, i + 1,
                                [Store(st, scheme_name, acc.rates)
                                   EXCEPT !.log = st.log \cup acc.log])
             ELSE TextLines(lines, i + 1, st)

\* 161: the condition under which the text fallback runs
FallbackDue(st, before) == ~(before \/ st.found) \/ st.map = <<>>

\* 109-201: one page
PageStep(page, map, raw, found) ==
    LET st0 == [map |-> map, raw |-> raw, touched |-> {}, log |-> {}, found |-> FALSE]
        st1 == Tables(page.tables, 1, st0)
        due == FallbackDue(st1, found)
        st2 == IF due /\ page.text # <<>> THEN TextLines(page.text, 1, st1) ELSE st1
    IN  [map |-> st2.map, raw |-> st2.raw, touched |-> st2.touched, log |-> st2.log,
         found |-> found \/ st1.found,
         tableOnPage |-> st1.found, emptyAfterTables |-> st1.map = <<>>,
         fallback |-> due]

\* 204-210
RECURSIVE Mandate(_, _, _)
Mandate(rates, expected, n) ==
    IF n > Len(expected) THEN rates
    ELSE Mandate([rates EXCEPT ![expected[n][1]] = expected[n][2]], expected, n + 1)

RECURSIVE ApplyValidations_FirstOnly(_, _)
ApplyValidations_FirstOnly(map, n) ==
    IF n > 1 THEN map
    ELSE LET scheme == SCHEME_VALIDATIONS[n].k
         IN  IF Has(map, scheme)
             THEN ApplyValidations_FirstOnly(
                    Put(map, scheme, Mandate(Get(map, scheme), SCHEME_VALIDATIONS[n].v, 1)),
                    n + 1)
             ELSE ApplyValidations_FirstOnly(map, n + 1)

RECURSIVE ApplyValidations(_, _)
ApplyValidations(map, n) ==
    IF n > Len(SCHEME_VALIDATIONS) THEN map
    ELSE LET scheme == SCHEME_VALIDATIONS[n].k
         IN  IF Has(map, scheme)
             THEN ApplyValidations(
                    Put(map, scheme, Mandate(Get(map, scheme), SCHEME_VALIDATIONS[n].v, 1)),
                    n + 1)
             ELSE ApplyValidations(map, n + 1)

NoPage == [n |-> 0, tableOnPage |-> FALSE, emptyAfterTables |-> FALSE, fallback |-> FALSE]

InitExtract ==
    /\ doc \in Docs
    /\ epc = "open"
    /\ pwIdx = 1
    /\ pageIdx = 0
    /\ scheme_map = <<>>            \* 101
    /\ tables_found = FALSE
    /\ result = <<>>
    /\ rawRates = <<>>
    /\ writtenIn = <<>>
    /\ beforeOverride = <<>>
    /\ lastPage = NoPage
    /\ assignLog = {}
    /\ fpc = "idle" /\ registry = <<>> /\ sheet = <<>> /\ df = <<>>
    /\ T15 = <<>> /\ B15 = <<>> /\ rowLog = <<>>
    /\ req = <<>> /\ upc = <<>> /\ bound = <<>> /\ fs = <<>> /\ held = <<>>
    /\ resp = <<>>

\* 106: pdfplumber.open succeeds; 107
Open ==
    /\ epc = "open"
    /\ pwIdx <= Len(PDF_PASSWORDS)
    /\ epc' = "pages"
    /\ pageIdx' = 1
    /\ tables_found' = FALSE
    /\ UNCHANGED <<doc, pwIdx, scheme_map, result, rawRates, writtenIn, beforeOverride,
                   lastPage, assignLog>>
    /\ UNCHANGED <<fvars, uvars>>

\* 106 raises; 213-214; the next password
OpenFails ==
    /\ epc = "open"
    /\ pwIdx <= Len(PDF_PASSWORDS)
    /\ pwIdx' = pwIdx + 1
    /\ UNCHANGED <<doc, epc, pageIdx, scheme_map, tables_found, result, rawRates,
                   writtenIn, beforeOverride, lastPage, assignLog>>
    /\ UNCHANGED <<fvars, uvars>>

\* 109-201 for one page
ProcessPage ==
    /\ epc = "pages"
    /\ pageIdx <= Len(doc)
    /\ LET r == PageStep(doc[pageIdx], scheme_map, rawRates, tables_found)
       IN  /\ scheme_map' = r.map
           /\ rawRates' = r.raw
           /\ tables_found' = r.found
           /\ writtenIn' = [k \in (DOMAIN writtenIn) \cup r.touched |->
                              IF k \in r.touched THEN pwIdx ELSE writtenIn[k]]
           /\ lastPage' = [n |-> pageIdx, tableOnPage |-> r.tableOnPage,
                           emptyAfterTables |-> r.emptyAfterTables,
                           fallback |-> r.fallback]
           /\ assignLog' = r.log
    /\ pageIdx' = pageIdx + 1
    /\ UNCHANGED <<doc, epc, pwIdx, result, beforeOverride>>
    /\ UNCHANGED <<fvars, uvars>>

\* extract_tables or extract_text raises on a page; 213-214; the next password
PageRaises ==
    /\ epc = "pages"
    /\ pageIdx <= Len(doc)
    /\ epc' = "open"
    /\ pwIdx' = pwIdx + 1
    /\ UNCHANGED <<doc, pageIdx, scheme_map, tables_found, result, rawRates, writtenIn,
                   beforeOverride, lastPage, assignLog>>
    /\ UNCHANGED <<fvars, uvars>>

\* 203-211: the pages are done and scheme_map is not empty
ReturnMap ==
    /\ epc = "pages"
    /\ pageIdx > Len(doc)
    /\ scheme_map # <<>>
    /\ beforeOverride' = scheme_map
    /\ scheme_map' = ApplyValidations(scheme_map, 1)
    /\ result' = scheme_map'
    /\ epc' = "returned"
    /\ UNCHANGED <<doc, pwIdx, pageIdx, tables_found, rawRates, writtenIn, lastPage,
                   assignLog>>
    /\ UNCHANGED <<fvars, uvars>>

\* 203 is false: the next password
NextPassword ==
    /\ epc = "pages"
    /\ pageIdx > Len(doc)
    /\ scheme_map = <<>>
    /\ epc' = "open"
    /\ pwIdx' = pwIdx + 1
    /\ UNCHANGED <<doc, pageIdx, scheme_map, tables_found, result, rawRates, writtenIn,
                   beforeOverride, lastPage, assignLog>>
    /\ UNCHANGED <<fvars, uvars>>

\* 216: the passwords are exhausted
ReturnEmpty ==
    /\ epc = "open"
    /\ pwIdx > Len(PDF_PASSWORDS)
    /\ result' = <<>>
    /\ epc' = "returned"
    /\ UNCHANGED <<doc, pwIdx, pageIdx, scheme_map, tables_found, rawRates, writtenIn,
                   beforeOverride, lastPage, assignLog>>
    /\ UNCHANGED <<fvars, uvars>>

(***************************************************************************)
(* The spreadsheet as pandas presents it: [readable, cols, rows], the      *)
(* column names and each row's cells in column order, every cell a text.   *)
(***************************************************************************)
NaN == <<"NaN">>    \* the missing value of pandas

UpperChar(c) ==
    IF \E i \in 1..Len(Lowers) : Lowers[i] = c
    THEN Uppers[CHOOSE i \in 1..Len(Lowers) : Lowers[i] = c]
    ELSE c

upper(s) == [i \in 1..Len(s) |-> UpperChar(s[i])]

Layout == << <<"S", "c", "h", "e", "m", "e", "n", "a", "m", "e">>, <<"B", "r", "o", "k", "e", "r", "a", "g", "e", "N", "a", "m", "e">>, <<"B", "r", "o", "k", "e", "r", "a", "g", "e", " ", "D", "a", "t", "e">>, <<"T", "x", "n", " ", "D", "a", "t", "e">>,
             <<"A", "m", "o", "u", "n", "t">>, <<"U", "p", "d", "a", "t", "e">> >>

RowSamples == {
    << <<"A", "B", "C", " ", "F", "u", "n", "d">>, <<"F", "I", "R", "S", "T", " ", "Y", "E", "A", "R", " ", "T", "R", "A", "I", "L">>, <<"2", "0", "2", "4", "-", "0", "3", "-", "3", "1">>, <<"2", "0", "2", "4", "-", "0", "1", "-", "0", "5">>, <<"1", "0", "0">>,
       <<"2", "0", "2", "4", "-", "0", "2", "-", "0", "1">> >>,
    << <<"A", "B", "C", " ", "F", "n", "d">>, <<" ", "1", "-", "3", " ", "y", "e", "a", "r", "s">>, <<"2", "0", "2", "4", "-", "0", "3", "-", "3", "1">>, <<"n", "/", "a">>, <<"2", "5", "0", ".", "5">>, <<"n", "/", "a">> >>,
    << <<"X", "Y", " ", "R", "e", "t", "a", "i", "l", " ", "P", "l", "a", "n", " ", "R", "e", "g">>, <<"4", "T", "H", " ", "Y", "E", "A", "R">>, <<"n", "/", "a">>, <<"2", "0", "2", "3", "-", "1", "2", "-", "3", "1">>, <<"7">>,
       <<"2", "0", "2", "4", "-", "0", "2", "-", "0", "1">> >>,
    << <<"X", "Y">>, <<"L", "o", "n", "g", " ", "T", "e", "r", "m">>, <<"2", "0", "2", "4", "-", "0", "3", "-", "3", "1">>, <<"2", "0", "2", "4", "-", "0", "1", "-", "0", "5">>, <<"1", "0", "0">>, <<"n", "/", "a">> >>,
    << <<>>, <<"F", "I", "R", "S", "T", " ", "Y", "E", "A", "R", " ", "T", "R", "A", "I", "L">>, <<"2", "0", "2", "4", "-", "0", "3", "-", "3", "1">>, <<"2", "0", "2", "4", "-", "0", "1", "-", "0", "5">>, <<"1", "0", "0">>, <<"n", "/", "a">> >>,
    << <<"A", "B", "C", " ", "F", "u", "n", "d">>, <<"F", "I", "F", "T", "H", " ", "Y", "E", "A", "R", " ", "T", "R", "A", "I", "L">>, <<"2", "0", "2", "4", "-", "0", "3", "-", "3", "1">>, <<"2", "0", "2", "4", "-", "0", "1", "-", "0", "5">>, <<"1", "0", "0">>,
       <<"n", "/", "a">> >> }

Sheets ==
    {[readable |-> TRUE, cols |-> Layout, rows |-> r] :
        r \in UNION {[1..n -> RowSamples] : n \in 1..MaxRows}}
    \cup
    \* a file pandas cannot read
    {[readable |-> FALSE, cols |-> <<>>, rows |-> <<>>]}
    \cup
    \* the name column spelled in lower case, and no date column
    {[readable |-> TRUE,
      cols |-> << <<"s", "c", "h", "e", "m", "e", "n", "a", "m", "e">>, <<"B", "r", "o", "k", "e", "r", "a", "g", "e", "N", "a", "m", "e">> >>,
      rows |-> << << <<"A", "B", "C", " ", "F", "u", "n", "d">>, <<"F", "I", "R", "S", "T", " ", "Y", "E", "A", "R", " ", "T", "R", "A", "I", "L">> >> >>]}

Rates(f, s, t, fo, lt) ==
    (BROKERAGE_TYPES[1] :> f) @@ (BROKERAGE_TYPES[2] :> s) @@ (BROKERAGE_TYPES[3] :> t)
    @@ (BROKERAGE_TYPES[4] :> fo) @@ (BROKERAGE_TYPES[5] :> lt)

\* registries of the kind extract_scheme_data returns: every key an output of
\* normalize, every record with a rate
Registries == {
    <<>>,
    \* scenario A of the specification
    << [k |-> <<"a", "b", "c", " ", "f", "u", "n", "d">>, v |-> Rates(50, 30, None, None, None)] >>,
    \* normalize("XY") and normalize("XY Retail Plan Reg")
    << [k |-> <<"x", "y">>, v |-> Rates(None, None, None, 80, 80)],
       [k |-> <<"x", "y", " ", "r", "e", "t", "a", "i", "l", " ", "p", "l", "a", "n">>, v |-> Rates(70, 70, 70, 45, 60)] >>,
    << [k |-> <<"a", "b", "c", " ", "f", "u", "n", "d">>, v |-> Rates(None, 0, 40, None, None)],
       [k |-> <<"h", "s", "b", "c", " ", "m", "i", "d", "c", "a", "p", " ", "f", "u", "n", "d">>, v |-> Rates(None, None, 115, 105, 105)] >> }

\* similarity scores process.extractOne may compute for a choice, on either
\* side of the cutoff
ScoreSamples == {89, 90}

(***************************************************************************)
(* fill_excel (app.py 224-303).                                            *)
(***************************************************************************)
\* row.get(name, ""): the cell of the column with exactly this name
RowGet(cols, row, name) ==
    IF \E i \in 1..Len(cols) : cols[i] = name
    THEN row[CHOOSE i \in 1..Len(cols) : cols[i] = name]
    ELSE <<>>

\* 231: the columns named like a date
DateCols(cols) ==
    {i \in 1..Len(cols) :
        Contains(lower(cols[i]), <<"d", "a", "t", "e">>) /\ ~Contains(lower(cols[i]), <<"b", "r", "o", "k", "e", "r", "a", "g", "e">>)}

\* 233: pd.to_datetime(errors="coerce") of a text, then strftime("%d-%m-%Y")
ToDayMonthYear(c) ==
    IF /\ Len(c) = 10
       /\ c[5] = "-" /\ c[8] = "-"
       /\ \A i \in {1, 2, 3, 4, 6, 7, 9, 10} : c[i] \in Digits
    THEN <<c[9], c[10], "-", c[6], c[7], "-", c[1], c[2], c[3], c[4]>>
    ELSE NaN

\* 231-233
ConvertDates_All(cols, rows) ==
    [r \in 1..Len(rows) |->
        [i \in 1..Len(cols) |->
            IF i \in DateCols(cols) THEN ToDayMonthYear(rows[r][i]) ELSE rows[r][i]]]

ConvertDates(cols, rows) ==
    IF DateCols(cols) = {} THEN rows
    ELSE [r \in 1..Len(rows) |->
            [i \in 1..Len(cols) |->
                IF i = Min(DateCols(cols)) THEN ToDayMonthYear(rows[r][i])
                ELSE rows[r][i]]]

\* 235: {normalize(k): v for k, v in scheme_map.items()}
RECURSIVE NormalizedKeys(_, _, _)
NormalizedKeys(map, n, acc) ==
    IF n > Len(map) THEN acc
    ELSE NormalizedKeys(map, n + 1, Put(acc, normalize(map[n].k), map[n].v))

normalized_pdf_keys == NormalizedKeys(registry, 1, <<>>)

\* 236-253: each label's canonical tier, or its list of tiers
One(t) == [list |-> FALSE, tiers |-> <<t>>]
FirstThree == [list |-> TRUE,
               tiers |-> <<"FIRST YEAR TRAIL", "SECOND YEAR TRAIL", "THIRD YEAR TRAIL">>]

brokerage_type_map == <<
    [k |-> <<"F", "I", "R", "S", "T", " ", "Y", "E", "A", "R", " ", "T", "R", "A", "I", "L">>, v |-> One("FIRST YEAR TRAIL")],
    [k |-> <<"S", "E", "C", "O", "N", "D", " ", "Y", "E", "A", "R", " ", "T", "R", "A", "I", "L">>, v |-> One("SECOND YEAR TRAIL")],
    [k |-> <<"T", "H", "I", "R", "D", " ", "Y", "E", "A", "R", " ", "T", "R", "A", "I", "L">>, v |-> One("THIRD YEAR TRAIL")],
    [k |-> <<"F", "O", "U", "R", "T", "H", " ", "Y", "E", "A", "R", " ", "T", "R", "A", "I", "L">>, v |-> One("FOURTH YEAR TRAIL")],
    [k |-> <<"L", "O", "N", "G", "T", "E", "R", "M", " ", "Y", "E", "A", "R", " ", "T", "R", "A", "I", "L">>, v |-> One("LONGTERM YEAR TRAIL")],
    [k |-> <<"F", "O", "U", "R", "T", "H", " ", "Y", "E", "A", "R">>, v |-> One("FOURTH YEAR TRAIL")],
    [k |-> <<"4", "T", "H", " ", "Y", "E", "A", "R", " ", "T", "R", "A", "I", "L">>, v |-> One("FOURTH YEAR TRAIL")],
    [k |-> <<"4", "T", "H", " ", "Y", "E", "A", "R">>, v |-> One("FOURTH YEAR TRAIL")],
    [k |-> <<"L", "O", "N", "G", " ", "T", "E", "R", "M", " ", "T", "R", "A", "I", "L">>, v |-> One("LONGTERM YEAR TRAIL")],
    [k |-> <<"L", "O", "N", "G", " ", "T", "E", "R", "M">>, v |-> One("LONGTERM YEAR TRAIL")],
    [k |-> <<"1", " ", "T", "O", " ", "3", " ", "Y", "E", "A", "R", "S", " ", "T", "R", "A", "I", "L">>, v |-> FirstThree],
    [k |-> <<"1", "-", "3", " ", "Y", "E", "A", "R", "S", " ", "T", "R", "A", "I", "L">>, v |-> FirstThree],
    [k |-> <<"1", " ", "T", "O", " ", "3", " ", "Y", "E", "A", "R", "S">>, v |-> FirstThree],
    [k |-> <<"1", "-", "3", " ", "Y", "E", "A", "R", "S">>, v |-> FirstThree],
    [k |-> <<"T", "R", "A", "I", "L", " ", "1", "-", "3">>, v |-> FirstThree],
    [k |-> <<"T", "R", "A", "I", "L", " ", "Y", "E", "A", "R", "S", " ", "1", "-", "3">>, v |-> FirstThree] >>

\* 260: brokerage_type_map.get(brokerage_type, brokerage_type); a label that is
\* not a key stays a text, which is no member of BROKERAGE_TYPES
Standardize(brokerage_type) ==
    IF Has(brokerage_type_map, brokerage_type)
    THEN Get(brokerage_type_map, brokerage_type)
    ELSE [list |-> FALSE, tiers |-> <<>>]

\* 272-276 and 287-291
RECURSIVE FirstRate(_, _, _)
FirstRate(rates, tiers, n) ==
    IF n > Len(tiers) THEN None
    ELSE IF rates[tiers[n]] # None THEN rates[tiers[n]]
    ELSE FirstRate(rates, tiers, n + 1)

\* 271-279 and 286-293: the rate of a record for the standardized tier(s)
RateOf(rates, std) ==
    IF std.list THEN FirstRate(rates, std.tiers, 1) ELSE rates[std.tiers[1]]

MaxOf(S) == CHOOSE x \in S : \A y \in S : x >= y

\* 281: process.extractOne(scheme, choices, score_cutoff=...): the first choice
\* with the best score, when that score reaches the cutoff (0: no result)
ExtractOneWith(scores, cutoff) ==
    IF scores = <<>> THEN 0
    ELSE LET best == MaxOf({scores[i] : i \in 1..Len(scores)})
         IN  IF best >= cutoff
             THEN Min({i \in 1..Len(scores) : scores[i] = best})
             ELSE 0

ScoreCutoff == 90

ExtractOne_LowCutoff(scores) == ExtractOneWith(scores, ScoreCutoff - 10)

ExtractOne(scores) == ExtractOneWith(scores, ScoreCutoff)

Resolution(value, fuzzy, best, match, raised) ==
    [value |-> value, fuzzy |-> fuzzy, best |-> best, match |-> match, raised |-> raised]

\* 255-295; scores are the similarities of the registry's keys to the name, and
\* raises is whether the search raises
get_brokerage(cols, row, scores, raises) ==
    LET scheme == normalize(RowGet(cols, row, <<"S", "c", "h", "e", "m", "e", "n", "a", "m", "e">>))
        brokerage_type == upper(strip(RowGet(cols, row, <<"B", "r", "o", "k", "e", "r", "a", "g", "e", "N", "a", "m", "e">>)))
        std == Standardize(brokerage_type)
        keys == normalized_pdf_keys
    IN  IF ~std.list /\ (std.tiers = <<>> \/ std.tiers[1] \notin Tiers)
        THEN Resolution(None, FALSE, 0, <<>>, FALSE)
        ELSE IF scheme = <<>> \/ std.tiers = <<>>
        THEN Resolution(None, FALSE, 0, <<>>, FALSE)
        ELSE IF Has(keys, scheme)
        THEN Resolution(RateOf(Get(keys, scheme), std), FALSE, 0, scheme, FALSE)
        ELSE IF raises
        THEN Resolution(None, TRUE, 0, <<>>, FALSE)     \* 294-295
        ELSE LET m == ExtractOne(scores)
                 best == IF scores = <<>> THEN 0
                         ELSE MaxOf({scores[i] : i \in 1..Len(scores)})
             IN  IF m = 0
                 THEN Resolution(None, TRUE, best, <<>>, FALSE)
                 ELSE Resolution(RateOf(keys[m].v, std), TRUE, best, keys[m].k, FALSE)

\* 227 succeeds; 231-233
ReadExcel ==
    /\ fpc = "read"
    /\ sheet.readable
    /\ df' = ConvertDates(sheet.cols, sheet.rows)
    /\ fpc' = "apply"
    /\ UNCHANGED <<registry, sheet, T15, B15, rowLog>>
    /\ UNCHANGED <<evars, uvars>>

\* 227 raises; 228-229
ReadExcelFails ==
    /\ fpc = "read"
    /\ ~sheet.readable
    /\ fpc' = "InternalServerError"
    /\ UNCHANGED <<registry, sheet, df, T15, B15, rowLog>>
    /\ UNCHANGED <<evars, uvars>>

\* 297: get_brokerage applied to the next row
ApplyRow ==
    /\ fpc = "apply"
    /\ Len(T15) < Len(df)
    /\ \E scores \in [1..Len(normalized_pdf_keys) -> ScoreSamples], raises \in BOOLEAN :
         LET r == get_brokerage(sheet.cols, df[Len(T15) + 1], scores, raises)
         IN  /\ T15' = Append(T15, r.value)
             /\ rowLog' = Append(rowLog, r)
    /\ UNCHANGED <<fpc, registry, sheet, df, B15>>
    /\ UNCHANGED <<evars, uvars>>

\* 298; 301 succeeds
WriteExcel ==
    /\ fpc = "apply"
    /\ Len(T15) = Len(df)
    /\ B15' = T15
    /\ fpc' = "written"
    /\ UNCHANGED <<registry, sheet, df, T15, rowLog>>
    /\ UNCHANGED <<evars, uvars>>

\* 298; 301 raises; 302-303
WriteExcelFails ==
    /\ fpc = "apply"
    /\ Len(T15) = Len(df)
    /\ B15' = T15
    /\ fpc' = "InternalServerError"
    /\ UNCHANGED <<registry, sheet, df, T15, rowLog>>
    /\ UNCHANGED <<evars, uvars>>

(***************************************************************************)
(* upload_files (app.py 62-97), for concurrent requests.                   *)
(*                                                                         *)
(* A request is [hasPdf, hasExcel, pdfName, excelName, readable]: whether  *)
(* each file part is present, the client's file names, and whether pandas  *)
(* can read the uploaded spreadsheet.  A file's content is [kind, pdf,     *)
(* excel]: the request whose PDF and whose spreadsheet it holds or was     *)
(* computed from (0: none).                                                *)
(***************************************************************************)
NumRequests == 2
Requests == 1..NumRequests

ReqSamples == {
    [hasPdf |-> TRUE, hasExcel |-> TRUE, pdfName |-> <<"r", "a", "t", "e", "s", ".", "p", "d", "f">>,
     excelName |-> <<"s", "h", "e", "e", "t", ".", "x", "l", "s", "x">>, readable |-> TRUE],
    [hasPdf |-> TRUE, hasExcel |-> TRUE, pdfName |-> <<".", ".", "/", "r", "a", "t", "e", "s", ".", "p", "d", "f">>,
     excelName |-> <<"M", "y", " ", "S", "h", "e", "e", "t", ".", "X", "L", "S">>, readable |-> TRUE],
    [hasPdf |-> FALSE, hasExcel |-> TRUE, pdfName |-> <<>>,
     excelName |-> <<"s", "h", "e", "e", "t", ".", "x", "l", "s", "x">>, readable |-> TRUE],
    [hasPdf |-> TRUE, hasExcel |-> TRUE, pdfName |-> <<"r", "a", "t", "e", "s", ".", "p", "d", "f", ".", "t", "x", "t">>,
     excelName |-> <<"s", "h", "e", "e", "t", ".", "x", "l", "s", "x">>, readable |-> TRUE],
    [hasPdf |-> TRUE, hasExcel |-> TRUE, pdfName |-> <<"r", "a", "t", "e", "s", ".", "p", "d", "f">>,
     excelName |-> <<"s", "h", "e", "e", "t", ".", "x", "l", "s", "x">>, readable |-> FALSE] }

\* filename.rsplit(".", 1)[1]
Extension(filename) ==
    LET dots == {i \in 1..Len(filename) : filename[i] = "."}
    IN  SubSeq(filename, MaxOf(dots) + 1, Len(filename))

\* 53-55
allowed_file(filename, extensions) ==
    Contains(filename, <<".">>) /\ lower(Extension(filename)) \in extensions

\* "_".join(s.split())
RECURSIVE JoinWords(_)
JoinWords(s) ==
    IF s = <<>> THEN <<>>
    ELSE IF IsSpace(Head(s))
    THEN (IF lstrip(s) = <<>> THEN <<>> ELSE <<"_">> \o JoinWords(lstrip(s)))
    ELSE <<Head(s)>> \o JoinWords(Tail(s))

RECURSIVE StripDotsUnderscores(_)
StripDotsUnderscores(s) ==
    IF s # <<>> /\ Head(s) \in {".", "_"} THEN StripDotsUnderscores(Tail(s))
    ELSE IF s # <<>> /\ s[Len(s)] \in {".", "_"}
    THEN StripDotsUnderscores(SubSeq(s, 1, Len(s) - 1))
    ELSE s

\* werkzeug's secure_filename (75-76): path separators become spaces, the words
\* are joined by "_", characters outside [A-Za-z0-9_.-] go, and leading and
\* trailing "." and "_" are stripped
secure_filename(filename) ==
    LET spaced == [i \in 1..Len(filename) |->
                      IF filename[i] \in {"/", "\\"} THEN " " ELSE filename[i]]
        joined == JoinWords(lstrip(spaced))
        kept == SelectSeq(joined, LAMBDA c : IsWordChar(c) \/ c \in {".", "-"})
    IN  StripDotsUnderscores(kept)

\* 77-78: os.path.join(UPLOAD_FOLDER, name)
UploadPath(name) == <<"U", "p", "l", "o", "a", "d", "s", "/">> \o secure_filename(name)

\* 79-80: a fresh uuid4 for every request
OutputPath(r) == IF r = 1 THEN <<"f", "i", "l", "l", "e", "d", "_", "o", "u", "t", "p", "u", "t", "/", "u", "u", "i", "d", "-", "1", ".", "x", "l", "s", "x">>
                 ELSE IF r = 2 THEN <<"f", "i", "l", "l", "e", "d", "_", "o", "u", "t", "p", "u", "t", "/", "u", "u", "i", "d", "-", "2", ".", "x", "l", "s", "x">>
                 ELSE <<"f", "i", "l", "l", "e", "d", "_", "o", "u", "t", "p", "u", "t", "/", "u", "u", "i", "d", "-", "3", ".", "x", "l", "s", "x">>

Content(kind, p, e) == [kind |-> kind, pdf |-> p, excel |-> e]
Response(status, p, e) == [status |-> status, pdf |-> p, excel |-> e]

Exists(path) == path \in DOMAIN fs
WriteFile(files, path, content) ==
    [p \in (DOMAIN files) \cup {path} |-> IF p = path THEN content ELSE files[p]]
RemoveFiles(files, paths) == [p \in (DOMAIN files) \ paths |-> files[p]]

\* 66-73: whether the request passes the two checks
Accepted(q) ==
    /\ q.hasPdf /\ q.hasExcel
    /\ allowed_file(q.pdfName, { <<"p", "d", "f">> })
    /\ allowed_file(q.excelName, { <<"x", "l", "s", "x">>, <<"x", "l", "s">> })

InitUpload ==
    /\ req \in [Requests -> ReqSamples]
    /\ upc = [r \in Requests |-> "check"]
    /\ bound = [r \in Requests |-> FALSE]
    /\ fs = <<>>
    /\ held = [r \in Requests |-> 0]
    /\ resp = [r \in Requests |-> Response(0, 0, 0)]
    /\ doc = <<>> /\ epc = "idle" /\ pwIdx = 0 /\ pageIdx = 0 /\ scheme_map = <<>>
    /\ tables_found = FALSE /\ result = <<>> /\ rawRates = <<>> /\ writtenIn = <<>>
    /\ beforeOverride = <<>> /\ lastPage = NoPage /\ assignLog = {}
    /\ fpc = "idle" /\ registry = <<>> /\ sheet = <<>> /\ df = <<>>
    /\ T15 = <<>> /\ B15 = <<>> /\ rowLog = <<>>

\* 66-73 raise BadRequest; 87-88: the handler is about to return the 400 reply
Reject(r) ==
    /\ upc[r] = "check"
    /\ ~Accepted(req[r])
    /\ resp' = [resp EXCEPT ![r] = Response(400, 0, 0)]
    /\ upc' = [upc EXCEPT ![r] = "finally"]
    /\ UNCHANGED <<req, bound, fs, held>>
    /\ UNCHANGED <<evars, fvars>>

\* 66-80: the checks pass and the path locals are bound
Accept(r) ==
    /\ upc[r] = "check"
    /\ Accepted(req[r])
    /\ bound' = [bound EXCEPT ![r] = TRUE]
    /\ upc' = [upc EXCEPT ![r] = "save_pdf"]
    /\ UNCHANGED <<req, fs, held, resp>>
    /\ UNCHANGED <<evars, fvars>>

\* 82
SavePdf(r) ==
    /\ upc[r] = "save_pdf"
    /\ fs' = WriteFile(fs, UploadPath(req[r].pdfName), Content("pdf", r, 0))
    /\ upc' = [upc EXCEPT ![r] = "save_excel"]
    /\ UNCHANGED <<req, bound, held, resp>>
    /\ UNCHANGED <<evars, fvars>>

\* 83
SaveExcel(r) ==
    /\ upc[r] = "save_excel"
    /\ fs' = WriteFile(fs, UploadPath(req[r].excelName), Content("excel", 0, r))
    /\ upc' = [upc EXCEPT ![r] = "extract"]
    /\ UNCHANGED <<req, bound, held, resp>>
    /\ UNCHANGED <<evars, fvars>>

\* 84: extract_scheme_data reads the file at pdf_path; when no password opens
\* it (the file is gone) the registry is empty
Extract(r) ==
    /\ upc[r] = "extract"
    /\ LET path == UploadPath(req[r].pdfName)
       IN  held' = [held EXCEPT ![r] = IF Exists(path) THEN fs[path].pdf ELSE 0]
    /\ upc' = [upc EXCEPT ![r] = "fill"]
    /\ UNCHANGED <<req, bound, fs, resp>>
    /\ UNCHANGED <<evars, fvars>>

\* what pd.read_excel finds at the path
Readable(path) ==
    /\ Exists(path)
    /\ fs[path].kind = "excel"
    /\ req[fs[path].excel].readable

\* 85: fill_excel reads the file at excel_path and writes output_path
Fill(r) ==
    /\ upc[r] = "fill"
    /\ Readable(UploadPath(req[r].excelName))
    /\ fs' = WriteFile(fs, OutputPath(r),
                       Content("out", held[r], fs[UploadPath(req[r].excelName)].excel))
    /\ upc' = [upc EXCEPT ![r] = "send"]
    /\ UNCHANGED <<req, bound, held, resp>>
    /\ UNCHANGED <<evars, fvars>>

\* 85 raises InternalServerError (227-229); 89-90 raise it again
FillFails(r) ==
    /\ upc[r] = "fill"
    /\ ~Readable(UploadPath(req[r].excelName))
    /\ resp' = [resp EXCEPT ![r] = Response(500, 0, 0)]
    /\ upc' = [upc EXCEPT ![r] = "finally"]
    /\ UNCHANGED <<req, bound, fs, held>>
    /\ UNCHANGED <<evars, fvars>>

\* 86: send_file opens the output
Send(r) ==
    /\ upc[r] = "send"
    /\ resp' = [resp EXCEPT ![r] =
                  Response(200, fs[OutputPath(r)].pdf, fs[OutputPath(r)].excel)]
    /\ upc' = [upc EXCEPT ![r] = "finally"]
    /\ UNCHANGED <<req, bound, fs, held>>
    /\ UNCHANGED <<evars, fvars>>

\* 91-97 with the locals bound: the three paths are removed, and the pending
\* reply or error leaves the handler
Finally(r) ==
    /\ upc[r] = "finally"
    /\ bound[r]
    /\ fs' = RemoveFiles(fs, {UploadPath(req[r].pdfName), UploadPath(req[r].excelName),
                              OutputPath(r)})
    /\ upc' = [upc EXCEPT ![r] = "done"]
    /\ UNCHANGED <<req, bound, held, resp>>
    /\ UNCHANGED <<evars, fvars>>

\* 92 with pdf_path unbound: UnboundLocalError leaves the finally block in place
\* of the pending reply, and Flask answers 500
FinallyUnbound(r) ==
    /\ upc[r] = "finally"
    /\ ~bound[r]
    /\ resp' = [resp EXCEPT ![r] = Response(500, 0, 0)]
    /\ upc' = [upc EXCEPT ![r] = "done"]
    /\ UNCHANGED <<req, bound, fs, held>>
    /\ UNCHANGED <<evars, fvars>>

(***************************************************************************)
(* Specifications.                                                         *)
(***************************************************************************)
InitFill ==
    /\ registry \in Registries
    /\ sheet \in Sheets
    /\ fpc = "read"
    /\ df = <<>>
    /\ T15 = <<>>
    /\ B15 = <<>>
    /\ rowLog = <<>>
    /\ doc = <<>> /\ epc = "idle" /\ pwIdx = 0 /\ pageIdx = 0 /\ scheme_map = <<>>
    /\ tables_found = FALSE /\ result = <<>> /\ rawRates = <<>> /\ writtenIn = <<>>
    /\ beforeOverride = <<>> /\ lastPage = NoPage /\ assignLog = {}
    /\ req = <<>> /\ upc = <<>> /\ bound = <<>> /\ fs = <<>> /\ held = <<>>
    /\ resp = <<>>

NextExtract ==
    \/ Open
    \/ OpenFails
    \/ ProcessPage
    \/ PageRaises
    \/ ReturnMap
    \/ NextPassword
    \/ ReturnEmpty

NextFill ==
    \/ ReadExcel
    \/ ReadExcelFails
    \/ ApplyRow
    \/ WriteExcel
    \/ WriteExcelFails

NextUpload ==
    \E r \in Requests :
        \/ Reject(r)
        \/ Accept(r)
        \/ SavePdf(r)
        \/ SaveExcel(r)
        \/ Extract(r)
        \/ Fill(r)
        \/ FillFails(r)
        \/ Send(r)
        \/ Finally(r)
        \/ FinallyUnbound(r)

SpecExtract == InitExtract /\ [][NextExtract]_vars
SpecFill == InitFill /\ [][NextFill]_vars
SpecUpload == InitUpload /\ [][NextUpload]_vars

Init == InitExtract \/ InitFill \/ InitUpload
Next == NextExtract \/ NextFill \/ NextUpload
Spec == Init /\ [][Next]_vars

(***************************************************************************)
(* The claims.                                                             *)
(***************************************************************************)
\* row i of the spreadsheet: its normalized fund name and its tier label
NameOf(i) == normalize(RowGet(sheet.cols, sheet.rows[i], <<"S", "c", "h", "e", "m", "e", "n", "a", "m", "e">>))
LabelOf(i) == upper(strip(RowGet(sheet.cols, sheet.rows[i], <<"B", "r", "o", "k", "e", "r", "a", "g", "e", "N", "a", "m", "e">>)))
Recognized(label) == \E n \in 1..Len(brokerage_type_map) : brokerage_type_map[n].k = label
LabelTiers(label) ==
    LET t == Get(brokerage_type_map, label).tiers IN {t[n] : n \in 1..Len(t)}

\* C1: for every row with a recognized tier label whose normalized fund name is
\* a key of the registry passed to fill_excel, the rate comes from that key's
\* record (the tier's rate, or the first non-null rate of the tier list) and
\* the fuzzy search is not invoked.
C1_ExactKeyResolvesWithoutFuzzy ==
    \A i \in 1..Len(T15) :
        (Recognized(LabelOf(i)) /\ Has(registry, NameOf(i)))
        => /\ ~rowLog[i].fuzzy
           /\ T15[i] = RateOf(Get(registry, NameOf(i)), Standardize(LabelOf(i)))

\* C2: in every returned registry, a record whose FOURTH YEAR TRAIL is set and
\* whose LONGTERM YEAR TRAIL was not extracted has LONGTERM YEAR TRAIL equal to
\* FOURTH YEAR TRAIL, for every rate including 0.0 and for the funds of
\* SCHEME_VALIDATIONS.
C2_LongtermEqualsFourth ==
    epc = "returned" =>
        \A i \in 1..Len(result) :
            (/\ result[i].v["FOURTH YEAR TRAIL"] # None
             /\ Get(rawRates, result[i].k)["LONGTERM YEAR TRAIL"] = None)
            => result[i].v["LONGTERM YEAR TRAIL"] = result[i].v["FOURTH YEAR TRAIL"]

\* C3: the returned registry holds no record extracted during an attempt
\* earlier than the one that returns it.
C3_RegistryFromOneAttempt ==
    epc = "returned" => \A i \in 1..Len(result) : writtenIn[result[i].k] = pwIdx

Listed(k, bt) ==
    \E n \in 1..Len(SCHEME_VALIDATIONS) : \E j \in 1..Len(SCHEME_VALIDATIONS[n].v) :
        SCHEME_VALIDATIONS[n].k = k /\ SCHEME_VALIDATIONS[n].v[j][1] = bt

IsMandated(k, bt, rate) ==
    \E n \in 1..Len(SCHEME_VALIDATIONS) : \E j \in 1..Len(SCHEME_VALIDATIONS[n].v) :
        /\ SCHEME_VALIDATIONS[n].k = k
        /\ SCHEME_VALIDATIONS[n].v[j] = <<bt, rate>>

\* C4: in every non-empty returned registry, each tier SCHEME_VALIDATIONS lists
\* for a fund of the registry holds the mandated rate whatever was extracted,
\* and every other tier of every fund is as extracted.
C4_OverridesWin ==
    (epc = "returned" /\ result # <<>>) =>
        /\ Len(result) = Len(beforeOverride)
        /\ \A i \in 1..Len(result) :
            /\ result[i].k = beforeOverride[i].k
            /\ \A bt \in Tiers :
                IF Listed(result[i].k, bt)
                THEN IsMandated(result[i].k, bt, result[i].v[bt])
                ELSE result[i].v[bt] = beforeOverride[i].v[bt]

\* a returned registry in which an override replaced an extracted rate, another
\* filled an absent one, and some fund is outside the table
C4_Witness ==
    /\ epc = "returned"
    /\ \E i \in 1..Len(result) : \E bt \in Tiers :
        /\ Listed(result[i].k, bt)
        /\ beforeOverride[i].v[bt] \notin {None, result[i].v[bt]}
    /\ \E i \in 1..Len(result) : \E bt \in Tiers :
        /\ Listed(result[i].k, bt)
        /\ beforeOverride[i].v[bt] = None
    /\ \E i \in 1..Len(result) : \A bt \in Tiers : ~Listed(result[i].k, bt)

\* C5: get_brokerage never raises, and returns a rate only for a recognized
\* label and a non-empty name that is a key of the lookup table or whose best
\* fuzzy score is at least 90; the rate is then one of the matched record's
\* rates for the label's tiers.  In every other case it returns None.
C5_RateOnlyWhenResolved ==
    \A i \in 1..Len(T15) :
        LET e == rowLog[i]
        IN  /\ ~e.raised
            /\ T15[i] = e.value
            /\ T15[i] # None =>
                /\ Recognized(LabelOf(i))
                /\ NameOf(i) # <<>>
                /\ registry # <<>>
                /\ Has(normalized_pdf_keys, e.match)
                /\ T15[i] \in {Get(normalized_pdf_keys, e.match)[bt] :
                                 bt \in LabelTiers(LabelOf(i))}
                /\ \/ ~e.fuzzy /\ e.match = NameOf(i)
                   \/ /\ e.fuzzy
                      /\ ~Has(normalized_pdf_keys, NameOf(i))
                      /\ e.best >= 90

\* a fuzzy match accepted at the threshold beside one refused just below it
C5_Witness ==
    \E i, j \in 1..Len(T15) :
        /\ rowLog[i].fuzzy /\ rowLog[i].best = 90 /\ T15[i] # None
        /\ rowLog[j].fuzzy /\ rowLog[j].best = 89 /\ T15[j] = None

InputError(q) == ~Accepted(q) \/ ~q.readable

\* C7: a request with an input error (a missing part, a disallowed extension,
\* an unreadable spreadsheet) is answered 400, not 500.
C7_InputErrorsAnswer400 ==
    \A r \in Requests :
        (upc[r] = "done" /\ InputError(req[r])) => resp[r].status = 400

\* C8: under every interleaving, the registry a request builds and the output
\* it returns come from its own PDF and spreadsheet, and a request with good
\* inputs does not fail.
C8_RequestsIsolated ==
    \A r \in Requests :
        /\ held[r] \in {0, r}
        /\ (upc[r] = "done" /\ ~InputError(req[r])) => resp[r] = Response(200, r, r)

\* C9: on every page with no table, and on every page after whose tables the
\* registry is empty, the text fallback runs.
C9_FallbackOnEveryTablelessPage ==
    lastPage.n # 0 =>
        ((~lastPage.tableOnPage \/ lastPage.emptyAfterTables) => lastPage.fallback)

\* C10: the first in-range rate of a sub-line with recognized tiers goes to
\* exactly those tiers whatever the cursor, which advances by their number;
\* only rates of sub-lines without a recognized tier are assigned by position.
C10_LabelledRateGoesToItsTiers ==
    \A e \in assignLog :
        /\ (e.matched # <<>> /\ e.first) =>
              /\ e.tiers = {e.matched[x] : x \in 1..Len(e.matched)}
              /\ e.after = e.cursor + Len(e.matched)
        /\ e.positional => e.matched = <<>>
====
